---- MODULE Spec2Model ----
(***************************************************************************)
(* Model of learnml/utils/activations.py: eight activation classes, each   *)
(* with __call__ (apply) and gradient, over numpy tensors.                 *)
(*                                                                         *)
(* Numbers.  A float is modelled as a decimal fixed-point number: the      *)
(* integer n stands for n / ONE.  Addition and subtraction are exact;      *)
(* multiplication and division round to nearest (ties to even), as IEEE    *)
(* arithmetic does; exp and log are computed by range reduction and a      *)
(* power series, accurate to a few units of the last place.                *)
(*                                                                         *)
(* Tensors.  A tensor is numpy's C-contiguous array: a shape and the       *)
(* elements in row-major order.  np.max / np.sum with keepdims=True and    *)
(* numpy broadcasting are computed on flat indices.                        *)
(***************************************************************************)
EXTENDS Integers, Sequences, FiniteSets, TLC

(***************************************************************************)
(* Bounds of the model.                                                    *)
(***************************************************************************)
MaxRank == 3
MaxDim == 2
MaxElems == 2
MaxBetween == 2

(***************************************************************************)
(* Fixed-point arithmetic.                                                 *)
(***************************************************************************)
ONE == 10 ^ 7
HALFWORD == 10 ^ 4

Abs(a) == IF a < 0 THEN -a ELSE a
Sgn(a) == IF a < 0 THEN -1 ELSE 1

\* q + r/b rounded to nearest, ties to even (0 <= r < b).
RoundHalfEven(q, r, b) ==
    IF r > b - r \/ (r = b - r /\ q % 2 = 1) THEN q + 1 ELSE q

\* |a| * |b| / ONE, by halves so that no intermediate product overflows.
MulMag(a, b) ==
    LET ah == a \div HALFWORD
        al == a % HALFWORD
        bh == b \div HALFWORD
        bl == b % HALFWORD
        cross == ah * bl + al * bh
        rest == (cross % 1000) * HALFWORD + al * bl
    IN  RoundHalfEven(ah * bh * 10 + cross \div 1000 + rest \div ONE,
                      rest % ONE, ONE)

FMul(a, b) == Sgn(a) * Sgn(b) * MulMag(Abs(a), Abs(b))

\* <<(10 * r) \div b, (10 * r) % b>> for 0 <= r < b, without forming 10 * r.
RECURSIVE TimesTen(_, _, _, _, _)
TimesTen(r, b, j, d, acc) ==
    IF j = 0 THEN <<d, acc>>
    ELSE IF acc >= b - r THEN TimesTen(r, b, j - 1, d + 1, acc - (b - r))
    ELSE TimesTen(r, b, j - 1, d, acc + r)

\* Long division: n more decimal digits of r / b appended to q, then rounded.
RECURSIVE DivDigits(_, _, _, _)
DivDigits(q, r, b, n) ==
    IF n = 0 THEN RoundHalfEven(q, r, b)
    ELSE LET s == IF r < 20 * ONE
                  THEN <<(10 * r) \div b, (10 * r) % b>>
                  ELSE TimesTen(r, b, 10, 0, 0)
         IN  DivDigits(10 * q + s[1], s[2], b, n - 1)

FDiv(a, b) ==
    Sgn(a) * Sgn(b) * DivDigits(Abs(a) \div Abs(b), Abs(a) % Abs(b), Abs(b), 7)

\* sum of f^n / n! for n = 1..12, added to acc (0 <= f <= ONE).
RECURSIVE ExpSeries(_, _, _, _)
ExpSeries(f, n, term, acc) ==
    IF n > 12 THEN acc
    ELSE LET t == FDiv(FMul(term, f), n * ONE)
         IN  ExpSeries(f, n + 1, t, acc + t)

EULER == ExpSeries(ONE, 1, ONE, ONE)

RECURSIVE ExpScale(_, _)
ExpScale(v, k) ==
    IF k = 0 THEN v
    ELSE IF k > 0 THEN ExpScale(FMul(v, EULER), k - 1)
    ELSE ExpScale(FDiv(v, EULER), k + 1)

\* np.exp on one element: e^floor(x) * e^frac(x).
FExp(x) == ExpScale(ExpSeries(x % ONE, 1, ONE, ONE), x \div ONE)

RECURSIVE LogSeries(_, _, _, _)
LogSeries(z2, n, pow, acc) ==
    IF n > 25 THEN acc
    ELSE LogSeries(z2, n + 2, FMul(pow, z2), acc + FDiv(pow, n * ONE))

\* np.log on one element v >= 1: log v = k + 2 atanh((w - 1) / (w + 1)), w = v / e^k.
RECURSIVE FLog(_)
FLog(v) ==
    IF v >= EULER THEN ONE + FLog(FDiv(v, EULER))
    ELSE LET z == FDiv(v - ONE, v + ONE)
         IN  2 * LogSeries(FMul(z, z), 1, z, 0)

(***************************************************************************)
(* Tensors: shape and row-major data.                                      *)
(***************************************************************************)
RECURSIVE Prod(_)
Prod(s) == IF s = <<>> THEN 1 ELSE Head(s) * Prod(Tail(s))

Tensor(shape, data) == [shape |-> shape, data |-> data]

\* Placeholder for "no tensor" (a raised exception, an unset local).
NoTensor == [shape |-> <<-1>>, data |-> <<>>]

ndim(x) == Len(x.shape)

\* An outcome of a call: a returned tensor or a raised exception.
Return(y) == [kind |-> "tensor", val |-> y]
Raise(e) == [kind |-> e, val |-> NoTensor]

\* Element-wise unary operation.
Map(F(_), x) == Tensor(x.shape, [i \in 1..Len(x.data) |-> F(x.data[i])])

\* Element-wise binary operation on tensors of the same shape.
Map2(F(_, _), x, y) ==
    Tensor(x.shape, [i \in 1..Len(x.data) |-> F(x.data[i], y.data[i])])

\* numpy's axis normalisation: axis in -ndim .. ndim-1, negative from the end.
AxisOk(x, axis) == -ndim(x) <= axis /\ axis < ndim(x)
AxisPos(x, axis) == (IF axis < 0 THEN axis + ndim(x) ELSE axis) + 1

\* Shape of a reduction with keepdims=True.
KeepDims(x, k) == [x.shape EXCEPT ![k] = 1]

\* Product of the dimensions after position k.
Inner(x, k) == Prod(SubSeq(x.shape, k + 1, Len(x.shape)))

\* The flat (0-based) indices of the lane reduced into output element j.
LaneIndex(x, k, j, i) ==
    LET inner == Inner(x, k)
    IN  (j \div inner) * x.shape[k] * inner + i * inner + (j % inner)

RECURSIVE FoldMax(_, _, _, _, _)
FoldMax(x, k, j, i, acc) ==
    IF i = x.shape[k] THEN acc
    ELSE LET v == x.data[LaneIndex(x, k, j, i) + 1]
         IN  FoldMax(x, k, j, i + 1, IF v > acc THEN v ELSE acc)

RECURSIVE FoldSum(_, _, _, _, _)
FoldSum(x, k, j, i, acc) ==
    IF i = x.shape[k] THEN acc
    ELSE FoldSum(x, k, j, i + 1, acc + x.data[LaneIndex(x, k, j, i) + 1])

\* np.max(x, axis, keepdims=True): AxisError for an axis out of range,
\* ValueError for a reduction axis of length 0 (maximum has no identity).
np_max(x, axis) ==
    IF ~AxisOk(x, axis) THEN Raise("AxisError")
    ELSE LET k == AxisPos(x, axis)
             shape == KeepDims(x, k)
         IN  IF x.shape[k] = 0 THEN Raise("ZeroSizeError")
             ELSE Return(Tensor(shape,
                    [j \in 1..Prod(shape) |->
                        FoldMax(x, k, j - 1, 1, x.data[LaneIndex(x, k, j - 1, 0) + 1])]))

\* Mutant of np_sum: the axis is dropped and every element is summed.
np_sum_all(x, axis) ==
    IF ~AxisOk(x, axis) THEN Raise("AxisError")
    ELSE LET shape == KeepDims(x, AxisPos(x, axis))
             RECURSIVE Total(_)
             Total(i) == IF i = 0 THEN 0 ELSE x.data[i] + Total(i - 1)
         IN  Return(Tensor(shape, [j \in 1..Prod(shape) |-> Total(Len(x.data))]))

\* np.sum(x, axis, keepdims=True): an empty reduction gives 0.
np_sum(x, axis) ==
    IF ~AxisOk(x, axis) THEN Raise("AxisError")
    ELSE LET k == AxisPos(x, axis)
             shape == KeepDims(x, k)
         IN  Return(Tensor(shape,
                    [j \in 1..Prod(shape) |-> FoldSum(x, k, j - 1, 0, 0)]))

\* numpy broadcasting of y (dimensions equal to x's, or 1) against x:
\* the flat index in y of the element paired with flat index i of x.
RECURSIVE BroadcastIndex(_, _, _, _, _, _)
BroadcastIndex(i, xs, ys, d, stride, acc) ==
    IF d = 0 THEN acc
    ELSE LET c == IF ys[d] = 1 THEN 0 ELSE i % xs[d]
         IN  BroadcastIndex(i \div xs[d], xs, ys, d - 1, stride * ys[d],
                            acc + c * stride)

Broadcast2(F(_, _), x, y) ==
    Tensor(x.shape,
           [i \in 1..Len(x.data) |->
               F(x.data[i],
                 y.data[BroadcastIndex(i - 1, x.shape, y.shape, Len(x.shape), 1, 0) + 1])])

(***************************************************************************)
(* The activations as functions of the input tensor (and of the fields of  *)
(* self they read).                                                        *)
(***************************************************************************)
FNeg(v) == -v
FSub(a, b) == a - b

\* Sigmoid.__call__: 1. / (1. + np.exp(-x))
Sigmoid_call(x) == Map(LAMBDA v : FDiv(ONE, ONE + FExp(-v)), x)

\* Sigmoid.gradient, from the results p, q of its two calls of __call__.
Sigmoid_gradient_of(p, q) == Map2(LAMBDA a, b : FMul(a, ONE - b), p, q)

Sigmoid_gradient(x) == Sigmoid_gradient_of(Sigmoid_call(x), Sigmoid_call(x))

\* Softmax.__call__, branch ndim == 2.
Softmax_rank2(x, axis) ==
    LET m == np_max(x, axis)
    IN  IF m.kind # "tensor" THEN m
        ELSE LET y == Map(FExp, Broadcast2(FSub, x, m.val))
                 s == np_sum(y, axis)
             IN  IF s.kind # "tensor" THEN s
                 ELSE Return(Broadcast2(FDiv, y, s.val))

\* Mutant of Softmax_rankN: the axis argument is ignored (last axis used).
Softmax_rankN_lastaxis(x, axis) == Softmax_rank2(x, -1)

\* Softmax.__call__, branch ndim > 2.
Softmax_rankN(x, axis) ==
    LET m == np_max(x, axis)
    IN  IF m.kind # "tensor" THEN m
        ELSE LET e == Map(FExp, Broadcast2(FSub, x, m.val))
                 s == np_sum(e, axis)
             IN  IF s.kind # "tensor" THEN s
                 ELSE Return(Broadcast2(FDiv, e, s.val))

\* Mutant of Softmax_call: rank 1 is taken by the general branch.
Softmax_call_rank1(x, axis) ==
    IF ndim(x) = 2 THEN Softmax_rank2(x, axis)
    ELSE IF ndim(x) >= 1 THEN Softmax_rankN(x, axis)
    ELSE Raise("ValueError")

\* Mutant of Softmax_call: only rank 1 is rejected, a scalar is passed through.
Softmax_call_rank0(x, axis) ==
    IF ndim(x) = 2 THEN Softmax_rank2(x, axis)
    ELSE IF ndim(x) > 2 THEN Softmax_rankN(x, axis)
    ELSE IF ndim(x) = 1 THEN Raise("ValueError")
    ELSE Return(x)

\* Softmax.__call__
Softmax_call(x, axis) ==
    IF ndim(x) = 2 THEN Softmax_rank2(x, axis)
    ELSE IF ndim(x) > 2 THEN Softmax_rankN(x, axis)
    ELSE Raise("ValueError")

\* Softmax.gradient, from the result p of its call of __call__.
Softmax_gradient_of(p) == Map(LAMBDA v : FMul(v, ONE - v), p)

Softmax_gradient(x) ==
    LET p == Softmax_call(x, -1)
    IN  IF p.kind # "tensor" THEN p ELSE Return(Softmax_gradient_of(p.val))

\* TanH.__call__: 2 / (1 + np.exp(-2 * x)) - 1
TanH_call(x) == Map(LAMBDA v : FDiv(2 * ONE, ONE + FExp(-2 * v)) - ONE, x)

\* TanH.gradient, from the result p of its call of __call__.
TanH_gradient_of(p) == Map(LAMBDA v : ONE - FMul(v, v), p)

TanH_gradient(x) == TanH_gradient_of(TanH_call(x))

\* ReLU.__call__: np.where(x >= 0, x, 0)
ReLU_call(x) == Map(LAMBDA v : IF v >= 0 THEN v ELSE 0, x)

\* Mutant of ReLU_gradient: zero counted as negative.
ReLU_gradient_strict(x) == Map(LAMBDA v : IF v > 0 THEN ONE ELSE 0, x)

\* ReLU.gradient: np.where(x >= 0, 1, 0)
ReLU_gradient(x) == Map(LAMBDA v : IF v >= 0 THEN ONE ELSE 0, x)

\* Mutant of LeakyReLU_call: the branches of np.where swapped.
LeakyReLU_call_swapped(x, alpha) ==
    Map(LAMBDA v : IF v >= 0 THEN FMul(alpha, v) ELSE v, x)

\* LeakyReLU.__call__: np.where(x >= 0, x, self.alpha * x)
LeakyReLU_call(x, alpha) == Map(LAMBDA v : IF v >= 0 THEN v ELSE FMul(alpha, v), x)

\* LeakyReLU.gradient: np.where(x >= 0, 1, self.alpha)
LeakyReLU_gradient(x, alpha) == Map(LAMBDA v : IF v >= 0 THEN ONE ELSE alpha, x)

\* ELU.__call__: np.where(x >= 0.0, x, self.alpha * (np.exp(x) - 1))
ELU_call(x, alpha) ==
    Map(LAMBDA v : IF v >= 0 THEN v ELSE FMul(alpha, FExp(v) - ONE), x)

\* ELU.gradient, from the result p of its call of __call__.
ELU_gradient_of(x, p, alpha) ==
    Map2(LAMBDA v, a : IF v >= 0 THEN ONE ELSE a + alpha, x, p)

ELU_gradient(x, alpha) == ELU_gradient_of(x, ELU_call(x, alpha), alpha)

\* SELU.__init__
SELU_scale == 10507010
SELU_alpha == 16732632

\* SELU.__call__
SELU_call(x, scale, alpha) ==
    Map(LAMBDA v : FMul(scale, IF v >= 0 THEN v ELSE FMul(alpha, FExp(v) - ONE)), x)

\* SELU.gradient
SELU_gradient(x, scale, alpha) ==
    Map(LAMBDA v : FMul(scale, IF v >= 0 THEN ONE ELSE FMul(alpha, FExp(v))), x)

\* SoftPlus.__call__: np.log(1 + np.exp(x))
SoftPlus_call(x) == Map(LAMBDA v : FLog(ONE + FExp(v)), x)

\* Mutant of SoftPlus_gradient: the sign of the exponent lost.
SoftPlus_gradient_sign(x) == Map(LAMBDA v : FDiv(ONE, ONE + FExp(v)), x)

\* SoftPlus.gradient: 1 / (1 + np.exp(-x))
SoftPlus_gradient(x) == Map(LAMBDA v : FDiv(ONE, ONE + FExp(-v)), x)

(***************************************************************************)
(* State.                                                                  *)
(*   leaky, elu, selu  the fields of one LeakyReLU, ELU and SELU instance  *)
(*                     (the other five classes have no fields);            *)
(*   ctor              the values the constructors stored;                 *)
(*   th                per calling thread: the call in progress, its       *)
(*                     position, the argument x (the caller's array, which *)
(*                     the callee shares), x0 (the array's content when it *)
(*                     was passed), the results p, q of the nested calls   *)
(*                     of __call__, and the outcome;                       *)
(*   saved             an earlier finished call and its outcome.           *)
(***************************************************************************)
VARIABLES leaky, elu, selu, ctor, th, saved

vars == <<leaky, elu, selu, ctor, th, saved>>

Acts == {"Sigmoid", "Softmax", "TanH", "ReLU", "LeakyReLU", "ELU", "SELU", "SoftPlus"}
Ops == {"call", "gradient"}

\* Element values of the input tensors; exp of every value the activations
\* form from them stays inside the range of the fixed-point numbers.
Values == {-((3 * ONE) \div 2), 0, 2 * ONE}

\* Values for the activations that take no exponential.
WideValues == {-10 * ONE, 10 * ONE}

RECURSIVE SeqsUpTo(_, _)
SeqsUpTo(S, n) ==
    IF n = 0 THEN {<<>>}
    ELSE LET shorter == SeqsUpTo(S, n - 1)
         IN  shorter \cup {Append(s, d) : s \in {r \in shorter : Len(r) = n - 1}, d \in S}

Shapes == {s \in SeqsUpTo(0..MaxDim, MaxRank) : Prod(s) <= MaxElems}

TensorsOver(shapes, values) ==
    UNION {{Tensor(s, d) : d \in [1..Prod(s) -> values]} : s \in shapes}

\* Larger inputs than the bounds admit: a row of three, a 2 x 2 matrix and
\* a rank-3 tensor with two lanes of two along each of two axes.
ExampleTensors ==
    { Tensor(<<1, 3>>, <<ONE, 2 * ONE, 3 * ONE>>),
      Tensor(<<2, 2>>, <<-((3 * ONE) \div 2), 2 * ONE, 0, ONE \div 2>>),
      Tensor(<<2, 1, 2>>, <<ONE, 2 * ONE, 3 * ONE, 0>>) }

Tensors == TensorsOver(Shapes, Values) \cup ExampleTensors

WideTensors == TensorsOver({<<>>, <<1>>}, WideValues)

\* The axis arguments tried on x: every valid axis and one invalid on each side.
AxisArgs(x) == -(ndim(x) + 1)..ndim(x)

\* alpha as passed to LeakyReLU.__init__ and ELU.__init__ (default 0.1).
DefaultAlpha == ONE \div 10
AlphaArgs == {DefaultAlpha, (3 * ONE) \div 10}

NoOutcome == [kind |-> "none", val |-> NoTensor]

Idle ==
    [pc |-> "idle", act |-> "none", op |-> "none", x |-> NoTensor, x0 |-> NoTensor,
     axis |-> -1, p |-> NoTensor, q |-> NoTensor, out |-> NoOutcome]

NoSaved ==
    [act |-> "none", op |-> "none", x |-> NoTensor, axis |-> -1, out |-> NoOutcome,
     between |-> 0]

\* The instances after construction, with `threads` callers and nothing called.
Constructed(threads) ==
    /\ \E la \in AlphaArgs, ea \in AlphaArgs :
          /\ leaky = [alpha |-> la]
          /\ elu = [alpha |-> ea]
          /\ selu = [scale |-> SELU_scale, alpha |-> SELU_alpha]
          /\ ctor = [leaky |-> [alpha |-> la], elu |-> [alpha |-> ea],
                     selu |-> [scale |-> SELU_scale, alpha |-> SELU_alpha]]
    /\ th = [t \in threads |-> Idle]
    /\ saved = NoSaved

Init == Constructed({1})

At(t, pc, act, op) == th[t].pc = pc /\ th[t].act = act /\ th[t].op = op

\* The call of thread t ends with outcome o.
Ends(t, o) == th' = [th EXCEPT ![t].pc = "returned", ![t].out = o]

\* The nested call of __call__ returns y; the next position is pc.
Nested(t, pc, y) == th' = [th EXCEPT ![t].pc = pc, ![t].p = y]

Frame == UNCHANGED <<leaky, elu, selu, ctor, saved>>

\* A caller passes tensor x (and axis) to operation op of activation act.
Invoke(t, act, op, x, axis) ==
    /\ th[t].pc = "idle"
    /\ th' = [th EXCEPT ![t] = [Idle EXCEPT !.pc = "entered", !.act = act, !.op = op,
                                            !.x = x, !.x0 = x, !.axis = axis]]
    /\ Frame

InputsOf(act, inputs) ==
    IF act \in {"ReLU", "LeakyReLU"} THEN inputs \cup WideTensors ELSE inputs

\* axis is a parameter of Softmax.__call__ alone (default -1).
AxesOf(act, op, x) == IF act = "Softmax" /\ op = "call" THEN AxisArgs(x) ELSE {-1}

Call(t) ==
    /\ th[t].pc = "idle"
    /\ \E act \in Acts, op \in Ops :
          \E x \in InputsOf(act, Tensors) :
              \E axis \in AxesOf(act, op, x) : Invoke(t, act, op, x, axis)

\* A few tensors of rank 0 to 3, one of them with an empty last axis.
SampleTensors ==
    { Tensor(<<>>, <<2 * ONE>>),
      Tensor(<<2>>, <<-((3 * ONE) \div 2), 2 * ONE>>),
      Tensor(<<1, 2>>, <<-((3 * ONE) \div 2), 2 * ONE>>),
      Tensor(<<2, 1, 1>>, <<0, -((3 * ONE) \div 2)>>),
      Tensor(<<1, 0>>, <<>>) }

\* The tensors the two threads pass: rank 1 (Softmax raises), 2 and 3.
ConcTensors ==
    { Tensor(<<2>>, <<-((3 * ONE) \div 2), 2 * ONE>>),
      Tensor(<<1, 2>>, <<-((3 * ONE) \div 2), 2 * ONE>>),
      Tensor(<<2, 1, 1>>, <<0, -((3 * ONE) \div 2)>>) }

CallConc(t) ==
    /\ th[t].pc = "idle"
    /\ \E act \in Acts, op \in Ops :
          \E x \in ConcTensors :
              \E axis \in AxesOf(act, op, x) : Invoke(t, act, op, x, axis)

CallSample(t) ==
    /\ th[t].pc = "idle"
    /\ \E act \in Acts, op \in Ops :
          \E x \in SampleTensors :
              \E axis \in AxesOf(act, op, x) : Invoke(t, act, op, x, axis)

\* The caller takes the outcome; the thread is free for the next call.
Finish(t) ==
    /\ th[t].pc = "returned"
    /\ th' = [th EXCEPT ![t] = Idle]
    /\ saved' = IF saved.act # "none" /\ saved.between < MaxBetween
                THEN [saved EXCEPT !.between = @ + 1]
                ELSE saved
    /\ UNCHANGED <<leaky, elu, selu, ctor>>

\* An observer keeps one finished call and its outcome, to compare later
\* calls with it.
Remember(t) ==
    /\ th[t].pc = "returned"
    /\ saved = NoSaved
    /\ saved' = [act |-> th[t].act, op |-> th[t].op, x |-> th[t].x0,
                 axis |-> th[t].axis, out |-> th[t].out, between |-> 0]
    /\ UNCHANGED <<leaky, elu, selu, ctor, th>>

Do_Sigmoid_call(t) ==
    /\ At(t, "entered", "Sigmoid", "call")
    /\ Ends(t, Return(Sigmoid_call(th[t].x)))
    /\ Frame

Do_Sigmoid_gradient_1(t) ==
    /\ At(t, "entered", "Sigmoid", "gradient")
    /\ Nested(t, "nested1", Sigmoid_call(th[t].x))
    /\ Frame

Do_Sigmoid_gradient_2(t) ==
    /\ At(t, "nested1", "Sigmoid", "gradient")
    /\ th' = [th EXCEPT ![t].pc = "nested2", ![t].q = Sigmoid_call(th[t].x)]
    /\ Frame

Do_Sigmoid_gradient_3(t) ==
    /\ At(t, "nested2", "Sigmoid", "gradient")
    /\ Ends(t, Return(Sigmoid_gradient_of(th[t].p, th[t].q)))
    /\ Frame

\* Mutant of Do_Softmax_call: the maximum is subtracted in place (x -= max).
Do_Softmax_call_inplace(t) ==
    /\ At(t, "entered", "Softmax", "call")
    /\ LET m == IF ndim(th[t].x) >= 2 THEN np_max(th[t].x, th[t].axis)
                ELSE Raise("ValueError")
       IN  th' = [th EXCEPT ![t].pc = "returned",
                            ![t].out = Softmax_call(th[t].x, th[t].axis),
                            ![t].x = IF m.kind = "tensor"
                                     THEN Broadcast2(FSub, th[t].x, m.val)
                                     ELSE th[t].x]
    /\ Frame

Do_Softmax_call(t) ==
    /\ At(t, "entered", "Softmax", "call")
    /\ Ends(t, Softmax_call(th[t].x, th[t].axis))
    /\ Frame

Do_Softmax_gradient_1(t) ==
    /\ At(t, "entered", "Softmax", "gradient")
    /\ LET p == Softmax_call(th[t].x, -1)
       IN  IF p.kind = "tensor" THEN Nested(t, "nested1", p.val) ELSE Ends(t, p)
    /\ Frame

Do_Softmax_gradient_2(t) ==
    /\ At(t, "nested1", "Softmax", "gradient")
    /\ Ends(t, Return(Softmax_gradient_of(th[t].p)))
    /\ Frame

Do_TanH_call(t) ==
    /\ At(t, "entered", "TanH", "call")
    /\ Ends(t, Return(TanH_call(th[t].x)))
    /\ Frame

Do_TanH_gradient_1(t) ==
    /\ At(t, "entered", "TanH", "gradient")
    /\ Nested(t, "nested1", TanH_call(th[t].x))
    /\ Frame

Do_TanH_gradient_2(t) ==
    /\ At(t, "nested1", "TanH", "gradient")
    /\ Ends(t, Return(TanH_gradient_of(th[t].p)))
    /\ Frame

Do_ReLU_call(t) ==
    /\ At(t, "entered", "ReLU", "call")
    /\ Ends(t, Return(ReLU_call(th[t].x)))
    /\ Frame

Do_ReLU_gradient(t) ==
    /\ At(t, "entered", "ReLU", "gradient")
    /\ Ends(t, Return(ReLU_gradient(th[t].x)))
    /\ Frame

Do_LeakyReLU_call(t) ==
    /\ At(t, "entered", "LeakyReLU", "call")
    /\ Ends(t, Return(LeakyReLU_call(th[t].x, leaky.alpha)))
    /\ Frame

Do_LeakyReLU_gradient(t) ==
    /\ At(t, "entered", "LeakyReLU", "gradient")
    /\ Ends(t, Return(LeakyReLU_gradient(th[t].x, leaky.alpha)))
    /\ Frame

\* Mutant of Do_ELU_call: each call halves self.alpha.
Do_ELU_call_decay(t) ==
    /\ At(t, "entered", "ELU", "call")
    /\ Ends(t, Return(ELU_call(th[t].x, elu.alpha)))
    /\ elu' = [alpha |-> elu.alpha \div 2]
    /\ UNCHANGED <<leaky, selu, ctor, saved>>

Do_ELU_call(t) ==
    /\ At(t, "entered", "ELU", "call")
    /\ Ends(t, Return(ELU_call(th[t].x, elu.alpha)))
    /\ Frame

\* Mutant of Do_ELU_gradient_1: self.alpha is zeroed around the nested call
\* and put back after it, in two steps.
Do_ELU_gradient_1_scratch(t) ==
    /\ At(t, "entered", "ELU", "gradient")
    /\ \/ /\ th[t].q = NoTensor
          /\ th' = [th EXCEPT ![t].q = Tensor(<<>>, <<elu.alpha>>)]
          /\ elu' = [alpha |-> 0]
       \/ /\ th[t].q # NoTensor
          /\ Nested(t, "nested1", ELU_call(th[t].x, th[t].q.data[1]))
          /\ elu' = [alpha |-> th[t].q.data[1]]
    /\ UNCHANGED <<leaky, selu, ctor, saved>>

Do_ELU_gradient_1(t) ==
    /\ At(t, "entered", "ELU", "gradient")
    /\ Nested(t, "nested1", ELU_call(th[t].x, elu.alpha))
    /\ Frame

Do_ELU_gradient_2(t) ==
    /\ At(t, "nested1", "ELU", "gradient")
    /\ Ends(t, Return(ELU_gradient_of(th[t].x, th[t].p, elu.alpha)))
    /\ Frame

Do_SELU_call(t) ==
    /\ At(t, "entered", "SELU", "call")
    /\ Ends(t, Return(SELU_call(th[t].x, selu.scale, selu.alpha)))
    /\ Frame

Do_SELU_gradient(t) ==
    /\ At(t, "entered", "SELU", "gradient")
    /\ Ends(t, Return(SELU_gradient(th[t].x, selu.scale, selu.alpha)))
    /\ Frame

Do_SoftPlus_call(t) ==
    /\ At(t, "entered", "SoftPlus", "call")
    /\ Ends(t, Return(SoftPlus_call(th[t].x)))
    /\ Frame

Do_SoftPlus_gradient(t) ==
    /\ At(t, "entered", "SoftPlus", "gradient")
    /\ Ends(t, Return(SoftPlus_gradient(th[t].x)))
    /\ Frame

\* One step of the code of a call in progress.
Code ==
    \/ \E t \in DOMAIN th : Do_Sigmoid_call(t)
    \/ \E t \in DOMAIN th : Do_Sigmoid_gradient_1(t)
    \/ \E t \in DOMAIN th : Do_Sigmoid_gradient_2(t)
    \/ \E t \in DOMAIN th : Do_Sigmoid_gradient_3(t)
    \/ \E t \in DOMAIN th : Do_Softmax_call(t)
    \/ \E t \in DOMAIN th : Do_Softmax_gradient_1(t)
    \/ \E t \in DOMAIN th : Do_Softmax_gradient_2(t)
    \/ \E t \in DOMAIN th : Do_TanH_call(t)
    \/ \E t \in DOMAIN th : Do_TanH_gradient_1(t)
    \/ \E t \in DOMAIN th : Do_TanH_gradient_2(t)
    \/ \E t \in DOMAIN th : Do_ReLU_call(t)
    \/ \E t \in DOMAIN th : Do_ReLU_gradient(t)
    \/ \E t \in DOMAIN th : Do_LeakyReLU_call(t)
    \/ \E t \in DOMAIN th : Do_LeakyReLU_gradient(t)
    \/ \E t \in DOMAIN th : Do_ELU_call(t)
    \/ \E t \in DOMAIN th : Do_ELU_gradient_1(t)
    \/ \E t \in DOMAIN th : Do_ELU_gradient_2(t)
    \/ \E t \in DOMAIN th : Do_SELU_call(t)
    \/ \E t \in DOMAIN th : Do_SELU_gradient(t)
    \/ \E t \in DOMAIN th : Do_SoftPlus_call(t)
    \/ \E t \in DOMAIN th : Do_SoftPlus_gradient(t)

Next ==
    \/ \E t \in DOMAIN th : Call(t)
    \/ Code
    \/ \E t \in DOMAIN th : Finish(t)

Spec == Init /\ [][Next]_vars

(***************************************************************************)
(* One caller and an observer that keeps an earlier call.                  *)
(***************************************************************************)
NextDet ==
    \/ \E t \in DOMAIN th : CallSample(t)
    \/ Code
    \/ \E t \in DOMAIN th : Remember(t)
    \/ \E t \in DOMAIN th : Finish(t)

SpecDet == Init /\ [][NextDet]_vars

(***************************************************************************)
(* Two threads calling the same instances with no synchronisation: the     *)
(* steps of their calls interleave freely.                                 *)
(***************************************************************************)
InitConc == Constructed({1, 2})

NextConc ==
    \/ \E t \in DOMAIN th : CallConc(t)
    \/ Code
    \/ \E t \in DOMAIN th : Finish(t)

SpecConc == InitConc /\ [][NextConc]_vars

(***************************************************************************)
(* Properties.                                                             *)
(***************************************************************************)
Returned(t, act, op) == At(t, "returned", act, op)

\* 1e-6
Tol == ONE \div 1000000

\* Every lane of y along axis sums to 1 within Tol.
SumsToOne(y, axis) ==
    LET k == AxisPos(y, axis)
    IN  \A j \in 1..Prod(KeepDims(y, k)) :
            Abs(FoldSum(y, k, j - 1, 0, 0) - ONE) <= Tol

\* Length of the axis of x that `axis` names.
AxisLen(x, axis) == x.shape[AxisPos(x, axis)]

\* C1: Softmax apply on a rank-1 tensor, whatever the axis argument, raises
\* ValueError and returns no tensor.
C1_Rank1Raises ==
    \A t \in DOMAIN th :
        Returned(t, "Softmax", "call") /\ ndim(th[t].x0) = 1
            => th[t].out = Raise("ValueError")

\* C1 witness: a rank-1 call with an axis out of range has raised ValueError.
C1_Witness ==
    \E t \in DOMAIN th :
        /\ Returned(t, "Softmax", "call")
        /\ ndim(th[t].x0) = 1
        /\ Len(th[t].x0.data) >= 2
        /\ th[t].axis = 1
        /\ th[t].out.kind = "ValueError"

\* C2 as stated: ValueError comes only from Softmax apply on a rank-1 tensor.
C2_OnlyApplyRank1 ==
    \A t \in DOMAIN th :
        th[t].pc = "returned" /\ th[t].out.kind = "ValueError"
            => th[t].act = "Softmax" /\ th[t].op = "call" /\ ndim(th[t].x0) = 1

\* C2 amended: ValueError is raised exactly by Softmax apply and Softmax
\* gradient on a tensor of rank below 2; the other seven activations always
\* return a tensor, and Softmax returns one for rank >= 2 when the axis is in
\* range and the axis reduced is not empty.
C2_RaisedBelowRank2 ==
    \A t \in DOMAIN th :
        th[t].pc = "returned" =>
            /\ th[t].out.kind = "ValueError"
                  <=> (th[t].act = "Softmax" /\ ndim(th[t].x0) < 2)
            /\ th[t].act # "Softmax" => th[t].out.kind = "tensor"
            /\ ( /\ th[t].act = "Softmax"
                 /\ ndim(th[t].x0) >= 2
                 /\ AxisOk(th[t].x0, th[t].axis)
                 /\ AxisLen(th[t].x0, th[t].axis) > 0 )
                  => th[t].out.kind = "tensor"

\* C2 witness: Softmax gradient on a scalar has raised ValueError.
C2_Witness ==
    \E t \in DOMAIN th :
        /\ Returned(t, "Softmax", "gradient")
        /\ ndim(th[t].x0) = 0
        /\ th[t].out.kind = "ValueError"

\* C3 as stated: for rank >= 2 and every valid axis the output of Softmax
\* apply has the shape of the input and sums to 1 along the axis.
C3_NormalizedAnyAxis ==
    \A t \in DOMAIN th :
        ( /\ Returned(t, "Softmax", "call")
          /\ ndim(th[t].x0) >= 2
          /\ AxisOk(th[t].x0, th[t].axis) )
            => /\ th[t].out.kind = "tensor"
               /\ th[t].out.val.shape = th[t].x0.shape
               /\ SumsToOne(th[t].out.val, th[t].axis)

\* C3 amended: the same for every valid axis of non-zero length (on an axis
\* of length 0 the maximum has no value and the call raises).
C3_NormalizedNonEmptyAxis ==
    \A t \in DOMAIN th :
        ( /\ Returned(t, "Softmax", "call")
          /\ ndim(th[t].x0) >= 2
          /\ AxisOk(th[t].x0, th[t].axis)
          /\ AxisLen(th[t].x0, th[t].axis) > 0 )
            => /\ th[t].out.kind = "tensor"
               /\ th[t].out.val.shape = th[t].x0.shape
               /\ SumsToOne(th[t].out.val, th[t].axis)

\* C3 witness: a rank-3 tensor normalised along its first axis, two lanes of
\* one element or one lane of several, with unequal outputs.
C3_Witness ==
    \E t \in DOMAIN th :
        /\ Returned(t, "Softmax", "call")
        /\ ndim(th[t].x0) = 3
        /\ th[t].axis = 0
        /\ th[t].x0.shape[1] >= 2
        /\ th[t].out.kind = "tensor"
        /\ Len(th[t].out.val.data) >= 2
        /\ th[t].out.val.data[1] # th[t].out.val.data[2]

\* C4: ReLU apply is max(x, 0) on every element; ReLU gradient is 1 where
\* x >= 0 and 0 elsewhere, so gradient(0) = 1.
C4_ReLU ==
    \A t \in DOMAIN th :
        /\ Returned(t, "ReLU", "call") =>
              /\ th[t].out.kind = "tensor"
              /\ th[t].out.val.shape = th[t].x0.shape
              /\ \A i \in 1..Len(th[t].x0.data) :
                    th[t].out.val.data[i]
                        = (IF th[t].x0.data[i] > 0 THEN th[t].x0.data[i] ELSE 0)
        /\ Returned(t, "ReLU", "gradient") =>
              /\ th[t].out.kind = "tensor"
              /\ th[t].out.val.shape = th[t].x0.shape
              /\ \A i \in 1..Len(th[t].x0.data) :
                    /\ th[t].x0.data[i] >= 0 => th[t].out.val.data[i] = ONE
                    /\ th[t].x0.data[i] < 0 => th[t].out.val.data[i] = 0

\* C4 witness: the gradient at an element equal to 0 is 1.
C4_Witness ==
    \E t \in DOMAIN th :
        /\ Returned(t, "ReLU", "gradient")
        /\ \E i \in 1..Len(th[t].x0.data) :
              th[t].x0.data[i] = 0 /\ th[t].out.val.data[i] = ONE

\* C5: with the alpha given at construction, LeakyReLU apply is x where
\* x >= 0 and alpha * x elsewhere, and gradient is 1 where x >= 0 and alpha
\* elsewhere; with alpha = 0.1, apply(-10) = -1.0 and apply(10) = 10.0.
C5_LeakyReLU ==
    \A t \in DOMAIN th :
        /\ Returned(t, "LeakyReLU", "call") =>
              /\ th[t].out.kind = "tensor"
              /\ th[t].out.val.shape = th[t].x0.shape
              /\ \A i \in 1..Len(th[t].x0.data) :
                    LET v == th[t].x0.data[i]
                        y == th[t].out.val.data[i]
                    IN  /\ v >= 0 => y = v
                        /\ v < 0 => y = FMul(ctor.leaky.alpha, v)
                        /\ ctor.leaky.alpha = DefaultAlpha /\ v = -10 * ONE => y = -ONE
                        /\ ctor.leaky.alpha = DefaultAlpha /\ v = 10 * ONE => y = 10 * ONE
        /\ Returned(t, "LeakyReLU", "gradient") =>
              /\ th[t].out.kind = "tensor"
              /\ th[t].out.val.shape = th[t].x0.shape
              /\ \A i \in 1..Len(th[t].x0.data) :
                    /\ th[t].x0.data[i] >= 0 => th[t].out.val.data[i] = ONE
                    /\ th[t].x0.data[i] < 0 => th[t].out.val.data[i] = ctor.leaky.alpha

\* C5 witness: apply(-10) has returned -1.0 for alpha = 0.1.
C5_Witness ==
    \E t \in DOMAIN th :
        /\ Returned(t, "LeakyReLU", "call")
        /\ ctor.leaky.alpha = DefaultAlpha
        /\ th[t].x0 = Tensor(<<1>>, <<-10 * ONE>>)
        /\ th[t].out = Return(Tensor(<<1>>, <<-ONE>>))

\* C6: SoftPlus gradient(x) and Sigmoid apply(x) are the same tensor, for
\* every x.
C6_SoftPlusGradientIsSigmoid ==
    \A t \in DOMAIN th :
        /\ Returned(t, "SoftPlus", "gradient")
              => th[t].out = Return(Sigmoid_call(th[t].x0))
        /\ Returned(t, "Sigmoid", "call")
              => th[t].out = Return(SoftPlus_gradient(th[t].x0))

\* C6 witness: SoftPlus gradient has returned for a tensor with a negative
\* and a positive element.
C6_Witness ==
    \E t \in DOMAIN th :
        /\ Returned(t, "SoftPlus", "gradient")
        /\ \E i, j \in 1..Len(th[t].x0.data) :
              th[t].x0.data[i] < 0 /\ th[t].x0.data[j] > 0
        /\ th[t].out.kind = "tensor"

\* C7: a call of the same operation with the same input (and axis) as an
\* earlier call has the same outcome, whatever was called in between.
C7_Deterministic ==
    \A t \in DOMAIN th :
        ( /\ th[t].pc = "returned"
          /\ saved.act = th[t].act
          /\ saved.op = th[t].op
          /\ saved.x = th[t].x0
          /\ saved.axis = th[t].axis )
            => th[t].out = saved.out

\* C7 witness: the kept ELU call is repeated on an input with a negative
\* element after another call has finished in between.
C7_Witness ==
    \E t \in DOMAIN th :
        /\ Returned(t, "ELU", "call")
        /\ saved.act = "ELU" /\ saved.op = "call" /\ saved.x = th[t].x0
        /\ saved.between = MaxBetween
        /\ \E i \in 1..Len(th[t].x0.data) : th[t].x0.data[i] < 0

\* C8: no call changes state: the fields of the instances keep the values
\* the constructors gave them, and the tensor a caller passed keeps its
\* content, also when the call fails.
C8_NothingChanges ==
    /\ leaky = ctor.leaky
    /\ elu = ctor.elu
    /\ selu = ctor.selu
    /\ \A t \in DOMAIN th : th[t].pc # "idle" => th[t].x = th[t].x0

\* C8 witness: a Softmax call on a rank-2 input has returned a tensor that
\* differs from the input.
C8_Witness ==
    \E t \in DOMAIN th :
        /\ Returned(t, "Softmax", "call")
        /\ ndim(th[t].x0) = 2
        /\ th[t].out.kind = "tensor"
        /\ th[t].out.val # th[t].x0
        /\ Len(th[t].x0.data) >= 2

\* The outcome of one call running alone on the instances as constructed.
Alone(act, op, x, axis) ==
    CASE act = "Sigmoid" /\ op = "call" -> Return(Sigmoid_call(x))
      [] act = "Sigmoid" /\ op = "gradient" -> Return(Sigmoid_gradient(x))
      [] act = "Softmax" /\ op = "call" -> Softmax_call(x, axis)
      [] act = "Softmax" /\ op = "gradient" -> Softmax_gradient(x)
      [] act = "TanH" /\ op = "call" -> Return(TanH_call(x))
      [] act = "TanH" /\ op = "gradient" -> Return(TanH_gradient(x))
      [] act = "ReLU" /\ op = "call" -> Return(ReLU_call(x))
      [] act = "ReLU" /\ op = "gradient" -> Return(ReLU_gradient(x))
      [] act = "LeakyReLU" /\ op = "call" -> Return(LeakyReLU_call(x, ctor.leaky.alpha))
      [] act = "LeakyReLU" /\ op = "gradient"
            -> Return(LeakyReLU_gradient(x, ctor.leaky.alpha))
      [] act = "ELU" /\ op = "call" -> Return(ELU_call(x, ctor.elu.alpha))
      [] act = "ELU" /\ op = "gradient" -> Return(ELU_gradient(x, ctor.elu.alpha))
      [] act = "SELU" /\ op = "call"
            -> Return(SELU_call(x, ctor.selu.scale, ctor.selu.alpha))
      [] act = "SELU" /\ op = "gradient"
            -> Return(SELU_gradient(x, ctor.selu.scale, ctor.selu.alpha))
      [] act = "SoftPlus" /\ op = "call" -> Return(SoftPlus_call(x))
      [] act = "SoftPlus" /\ op = "gradient" -> Return(SoftPlus_gradient(x))

\* C9: with two threads calling the same instances, every call returns what
\* it returns when it runs alone, and the fields of the instances stay as
\* constructed.
C9_InterleavingFree ==
    /\ \A t \in DOMAIN th :
          th[t].pc = "returned"
              => th[t].out = Alone(th[t].act, th[t].op, th[t].x0, th[t].axis)
    /\ <<leaky, elu, selu>> = <<ctor.leaky, ctor.elu, ctor.selu>>

\* C9 witness: an ELU gradient has returned while the other thread is
\* between the nested call and the end of its own ELU gradient.
C9_Witness ==
    \E t, u \in DOMAIN th :
        /\ t # u
        /\ Returned(t, "ELU", "gradient")
        /\ At(u, "nested1", "ELU", "gradient")
        /\ \E i \in 1..Len(th[t].x0.data) : th[t].x0.data[i] < 0

\* C10: for rank >= 2 the outcome of Softmax apply is that of the rank-2
\* branch and that of the rank > 2 branch on the same input and axis.
C10_BranchesAgree ==
    \A t \in DOMAIN th :
        Returned(t, "Softmax", "call") /\ ndim(th[t].x0) >= 2
            => /\ th[t].out = Softmax_rank2(th[t].x0, th[t].axis)
               /\ th[t].out = Softmax_rankN(th[t].x0, th[t].axis)

\* C10 witness: a rank-3 tensor normalised along an axis that is not its
\* last, with unequal outputs.
C10_Witness ==
    \E t \in DOMAIN th :
        /\ Returned(t, "Softmax", "call")
        /\ ndim(th[t].x0) = 3
        /\ th[t].axis = -2
        /\ th[t].x0.shape[2] >= 2
        /\ th[t].out.kind = "tensor"
        /\ Len(th[t].out.val.data) >= 2
        /\ th[t].out.val.data[1] # th[t].out.val.data[2]

====
